---- MODULE Spec2Model ----
(***************************************************************************)
(* The offline write queue of the task tracker: class SyncQueue, its       *)
(* localStorage mirror, the drain (processQueue / processOperation), the   *)
(* dispatcher (executeOperation) and the connectivity listeners.           *)
(*                                                                         *)
(* JavaScript runs one callback to completion; the only places where the   *)
(* drain gives up control are `await executeOperation` and `await delay`.  *)
(* Every action below is one such run-to-completion step.                  *)
(***************************************************************************)
EXTENDS Integers, Sequences, FiniteSets, TLC

\* ------------------------------------------------------------------ bounds
\* Number of add() calls of one behaviour (ids are 1..MaxOps).
MaxOps == 3

\* ------------------------------------------------------- program constants
SYNC_RETRY_DELAYS_MS == <<2000, 4000, 8000, 16000>>

\* SYNC_RETRY_DELAYS_MS.length
RetryCeiling == Len(SYNC_RETRY_DELAYS_MS)

\* SyncOperationType
SyncOperationType == {"create", "update", "delete"}

\* SyncEntity
SyncEntity == {"task", "comment", "workspace"}

\* The add() calls callers make: <<type, entity, entityId, workspaceId, payload>>,
\* payloads JSON-safe.  Two entities that differ in `entity` only:
EntityInputs ==
    { <<"update", "task", "x", "w", "a">>,
      <<"update", "comment", "x", "w", "a">> }

\* One entity, every operation type, two payloads:
CoalesceInputs ==
    { <<"update", "task", "x", "w", "a">>,
      <<"update", "task", "x", "w", "b">>,
      <<"create", "task", "x", "w", "a">>,
      <<"delete", "task", "x", "w", "a">> }

\* Two payloads for one entity and a second entity:
AutoInputs ==
    { <<"update", "task", "x", "w", "a">>,
      <<"update", "task", "x", "w", "b">>,
      <<"update", "comment", "x", "w", "a">> }

\* Three distinct entities:
DistinctInputs ==
    { <<"update", "task", "x", "w", "a">>,
      <<"create", "comment", "x", "w", "a">>,
      <<"delete", "task", "y", "w", "a">> }

\* Every operation type on every entity type:
DispatchInputs ==
    { <<type, entity, "x", "w", "a">> :
        type \in SyncOperationType, entity \in SyncEntity }

\* Messages of the errors a fetch can end with (response not ok).
FetchErrors == {"HTTP 500"}

\* ------------------------------------------------------------ JS values
\* `undefined`: an array hole, an out-of-range read.
undefined == [js |-> "undefined"]

\* `null`: what JSON.stringify writes for a hole, and getItem for no item.
null == [js |-> "null"]

\* A value that is a SyncOperation object.
IsOp(x) == "id" \in DOMAIN x

\* The absent `error` property of a SyncOperation.
NoError == "-"

VARIABLES
    queue,              \* this.queue: the array, holes as undefined
    storage,            \* localStorage[STORAGE_KEY]: <<>> or <<the parsed list>>
    isProcessing,       \* this.isProcessing
    online,             \* navigator.onLine
    listening,          \* the window listeners are installed
    pc,                 \* where the drain is suspended: idle, exec, delay
    pendingOperations,  \* processQueue: what the for-of has still to visit
    operation,          \* processOperation: its parameter
    index,              \* processOperation: its local (1-based, 0 is -1)
    enqueued,           \* history: the records add() built, by id
    dispatched,         \* history: executeOperation invocations, by id
    passResult,         \* how the last processQueue() promise settled
    storeFull,          \* localStorage.setItem throws (quota exceeded)
    writes,             \* history: setItem calls made by the last step
    exception,          \* history: what the last call threw to its caller
    timer               \* ms of the backoff setTimeout that is pending, else 0

vars == <<queue, storage, isProcessing, online, listening, pc,
          pendingOperations, operation, index, enqueued, dispatched,
          passResult, storeFull, writes, exception, timer>>

\* ------------------------------------------------------- array primitives
\* Array.prototype.filter skips holes: the elements its callback is asked
\* about, in order.  filter(f) is SelectSeq(Visited(q), f).
Visited(q) == SelectSeq(q, LAMBDA e : e # undefined)

\* A filter callback reads a property of its element: it throws on null.
FilterThrows(q) == \E i \in 1..Len(q) : q[i] = null

\* this.queue[i] = v (beyond the end the array grows, leaving holes).
ArraySet(q, i, v) ==
    [j \in 1..(IF i > Len(q) THEN i ELSE Len(q)) |->
        IF j = i THEN v ELSE IF j <= Len(q) THEN q[j] ELSE undefined]

\* this.queue[i]
ArrayGet(q, i) == IF i \in 1..Len(q) THEN q[i] ELSE undefined

\* this.queue.findIndex((op) => op.id === operation.id): the first position
\* whose callback returns true, 0 for -1.  Holes are visited.
FirstMatch(q, op) ==
    IF \E i \in 1..Len(q) : IsOp(q[i]) /\ IsOp(op) /\ q[i].id = op.id
    THEN CHOOSE i \in 1..Len(q) :
            /\ IsOp(q[i]) /\ IsOp(op) /\ q[i].id = op.id
            /\ \A j \in 1..(i - 1) : ~(IsOp(q[j]) /\ q[j].id = op.id)
    ELSE 0

\* The callback throws a TypeError on an element that is undefined or null,
\* and on any element when the parameter `operation` is undefined.
FindIndexThrows(q, op) ==
    LET last == IF FirstMatch(q, op) = 0 THEN Len(q) ELSE FirstMatch(q, op)
    IN  \/ \E j \in 1..last : ~IsOp(q[j])
        \/ (~IsOp(op) /\ q # <<>>)

\* ------------------------------------------------------------- the store
\* JSON.stringify(this.queue) followed by JSON.parse: a hole comes back null.
Stringify(q) == [i \in 1..Len(q) |-> IF q[i] = undefined THEN null ELSE q[i]]

\* loadFromStorage: the list the constructor starts from.
loadFromStorage(st) == IF st = <<>> THEN <<>> ELSE st[1]

\* The machine state as one record, so that a handler can be composed of the
\* calls it makes.
State ==
    [queue |-> queue, storage |-> storage, isProcessing |-> isProcessing,
     pc |-> pc, pendingOperations |-> pendingOperations,
     operation |-> operation, index |-> index, dispatched |-> dispatched,
     passResult |-> passResult, storeFull |-> storeFull, writes |-> 0,
     exception |-> "none", timer |-> timer]

Becomes(s) ==
    /\ queue' = s.queue
    /\ storage' = s.storage
    /\ isProcessing' = s.isProcessing
    /\ pc' = s.pc
    /\ pendingOperations' = s.pendingOperations
    /\ operation' = s.operation
    /\ index' = s.index
    /\ dispatched' = s.dispatched
    /\ passResult' = s.passResult
    /\ writes' = s.writes
    /\ exception' = s.exception
    /\ timer' = s.timer

\* saveToStorage with the error of setItem left uncaught.
saveToStorageUncaught(s) ==
    IF s.storeFull
    THEN [s EXCEPT !.writes = @ + 1, !.exception = "QuotaExceededError"]
    ELSE [s EXCEPT !.storage = <<Stringify(s.queue)>>, !.writes = @ + 1]

\* saveToStorage: setItem of the whole list; an error of setItem is caught
\* and logged.
saveToStorage(s) ==
    IF s.storeFull
    THEN [s EXCEPT !.writes = @ + 1]
    ELSE [s EXCEPT !.storage = <<Stringify(s.queue)>>, !.writes = @ + 1]

\* getPending
getPending(q) == SelectSeq(Visited(q), LAMBDA op : op.status = "pending")

\* getFailed
getFailed(q) == SelectSeq(Visited(q), LAMBDA op : op.status = "failed")

\* ---------------------------------------------------------- the dispatcher
\* JSON.stringify(payload) of a JSON-safe payload: a string holding its text.
JSONstringify(payload) == [js |-> "string", json |-> payload]

\* executeOperation up to its fetch: the request, or the error it throws
\* before any request is made.
executeOperation(op) ==
    CASE op.entity = "task" /\ op.type = "create" ->
            [method |-> "POST",
             url |-> <<"workspaces", op.workspaceId, "tasks">>,
             body |-> JSONstringify(op.payload), threw |-> NoError]
      [] op.entity = "task" /\ op.type = "update" ->
            [method |-> "PATCH",
             url |-> <<"workspaces", op.workspaceId, "tasks", op.entityId>>,
             body |-> JSONstringify(op.payload), threw |-> NoError]
      [] op.entity = "task" /\ op.type = "delete" ->
            [method |-> "DELETE",
             url |-> <<"workspaces", op.workspaceId, "tasks", op.entityId>>,
             body |-> undefined, threw |-> NoError]
      [] op.entity = "comment" /\ op.type = "create" ->
            [method |-> "POST",
             url |-> <<"tasks", op.entityId, "comments">>,
             body |-> JSONstringify(op.payload), threw |-> NoError]
      [] op.entity = "comment" /\ op.type = "update" ->
            [method |-> "PATCH",
             url |-> <<"comments", op.entityId>>,
             body |-> JSONstringify(op.payload), threw |-> NoError]
      [] op.entity = "comment" /\ op.type = "delete" ->
            [method |-> "DELETE",
             url |-> <<"comments", op.entityId>>,
             body |-> undefined, threw |-> NoError]
      [] op.entity \in {"task", "comment"} /\ op.type \notin SyncOperationType ->
            [method |-> "-", url |-> <<>>, body |-> undefined,
             threw |-> "Unknown operation type"]
      [] OTHER ->
            [method |-> "-", url |-> <<>>, body |-> undefined,
             threw |-> "Unknown entity type"]

\* --------------------------------------------------------------- the drain
\* SYNC_RETRY_DELAYS_MS[retryCount], the argument of this.delay (the array
\* is 0-based; past its end the read is undefined and setTimeout waits 0).
RetryDelay(retryCount) ==
    IF retryCount + 1 \in 1..Len(SYNC_RETRY_DELAYS_MS)
    THEN SYNC_RETRY_DELAYS_MS[retryCount + 1]
    ELSE 0

\* The history counts invocations up to one more than the retry ceiling.
CountCap == RetryCeiling + 1

Count(n) == IF n < CountCap THEN n + 1 ELSE n

\* processQueue's promise settles: the finally block.
Settle(s, how) ==
    [s EXCEPT !.isProcessing = FALSE, !.pc = "idle",
              !.pendingOperations = <<>>, !.operation = undefined,
              !.index = 0, !.passResult = how]

\* processOperation up to its first await: "return" (not in the queue),
\* "throw" (the findIndex callback threw) or suspended in executeOperation.
processOperation(s, op) ==
    IF FindIndexThrows(s.queue, op) THEN [s EXCEPT !.pc = "throw"]
    ELSE LET i == FirstMatch(s.queue, op) IN
         IF i = 0 THEN [s EXCEPT !.pc = "return"]
         ELSE saveToStorage(
                [s EXCEPT !.queue = ArraySet(@, i, [op EXCEPT !.status = "syncing"]),
                          !.operation = op,
                          !.index = i,
                          !.pc = "exec",
                          !.dispatched[op.id] = Count(@)])

\* The for-of of processQueue, from the element after the one just finished
\* to the next await or to the end of the pass.
RECURSIVE Loop(_)
Loop(s) ==
    IF s.pendingOperations = <<>> THEN Settle(s, "resolved")
    ELSE LET r == processOperation(
                    [s EXCEPT !.pendingOperations = Tail(@)],
                    Head(s.pendingOperations))
         IN  CASE r.pc = "return" -> Loop(r)
               [] r.pc = "throw" -> Settle(r, "rejected")
               [] OTHER -> r

\* processQueue without the isProcessing half of its guard.
processQueueNoGuard(s, on) ==
    IF ~on THEN s
    ELSE IF FilterThrows(s.queue)
         THEN Settle([s EXCEPT !.isProcessing = TRUE], "rejected")
         ELSE Loop([s EXCEPT !.isProcessing = TRUE,
                             !.passResult = "running",
                             !.pendingOperations = getPending(s.queue)])

\* processQueue, up to its first await.
processQueue(s, on) ==
    IF s.isProcessing \/ ~on THEN s
    ELSE IF FilterThrows(s.queue)
         THEN Settle([s EXCEPT !.isProcessing = TRUE], "rejected")
         ELSE Loop([s EXCEPT !.isProcessing = TRUE,
                             !.passResult = "running",
                             !.pendingOperations = getPending(s.queue)])

\* ---------------------------------------------------------- the queue core
\* The record add() builds.
NewOperation(id, in) ==
    [id |-> id, type |-> in[1], entity |-> in[2], entityId |-> in[3],
     workspaceId |-> in[4], payload |-> in[5], timestamp |-> id,
     retryCount |-> 0, status |-> "pending", error |-> NoError]

\* add() that appends without removing the pending records of the entity.
addWithoutDedupe(s, on, newOperation) ==
    processQueue(saveToStorage([s EXCEPT !.queue = Append(@, newOperation)]), on)

\* add() that removes only the pending records of the same operation type.
addDedupeSameType(s, on, newOperation) ==
    LET deduped == SelectSeq(Visited(s.queue),
                     LAMBDA op : ~(op.entity = newOperation.entity
                                   /\ op.entityId = newOperation.entityId
                                   /\ op.type = newOperation.type
                                   /\ op.status = "pending"))
    IN  processQueue(saveToStorage(
            [s EXCEPT !.queue = Append(deduped, newOperation)]), on)

\* add() that writes the store before it pushes the new record.
addSaveBeforePush(s, on, newOperation) ==
    LET deduped == SelectSeq(Visited(s.queue),
                     LAMBDA op : ~(op.entity = newOperation.entity
                                   /\ op.entityId = newOperation.entityId
                                   /\ op.status = "pending"))
        saved == saveToStorage([s EXCEPT !.queue = deduped])
    IN  processQueue([saved EXCEPT !.queue = Append(deduped, newOperation)], on)

\* add(): dedupe, push, save, and the drain it starts when online.
add(s, on, newOperation) ==
    LET deduped == SelectSeq(Visited(s.queue),
                     LAMBDA op : ~(op.entity = newOperation.entity
                                   /\ op.entityId = newOperation.entityId
                                   /\ op.status = "pending"))
        pushed == Append(deduped, newOperation)
    IN  processQueue(saveToStorage([s EXCEPT !.queue = pushed]), on)

\* remove(id)
remove(s, id) ==
    saveToStorage([s EXCEPT !.queue = SelectSeq(Visited(@), LAMBDA op : op.id # id)])

\* clear()
clear(s) == saveToStorage([s EXCEPT !.queue = <<>>])

\* clearFailed()
clearFailed(s) ==
    saveToStorage([s EXCEPT !.queue = SelectSeq(Visited(@), LAMBDA op : op.status # "failed")])

\* ------------------------------------------------------------------ actions
Init ==
    /\ queue = <<>>
    /\ storage = <<>>
    /\ isProcessing = FALSE
    /\ online \in BOOLEAN
    /\ listening = TRUE
    /\ pc = "idle"
    /\ pendingOperations = <<>>
    /\ operation = undefined
    /\ index = 0
    /\ enqueued = <<>>
    /\ dispatched = [id \in 1..MaxOps |-> 0]
    /\ passResult = "none"
    /\ storeFull = FALSE
    /\ writes = 0
    /\ exception = "none"
    /\ timer = 0

\* A caller enqueues an operation.  With a null entry in the list the filter
\* callback throws before anything is changed.
Add(in) ==
    /\ Len(enqueued) < MaxOps
    /\ IF FilterThrows(queue)
       THEN /\ UNCHANGED <<timer, queue, storage, isProcessing, pc, pendingOperations,
                           operation, index, enqueued, dispatched, passResult>>
            /\ writes' = 0
            /\ exception' = "TypeError"
       ELSE LET newOperation == NewOperation(Len(enqueued) + 1, in) IN
            /\ enqueued' = Append(enqueued, newOperation)
            /\ Becomes(add(State, online, newOperation))
    /\ UNCHANGED <<online, listening, storeFull>>

Remove(id) ==
    /\ ~FilterThrows(queue)
    /\ Becomes(remove(State, id))
    /\ UNCHANGED <<online, listening, enqueued, storeFull>>

Clear ==
    /\ Becomes(clear(State))
    /\ UNCHANGED <<online, listening, enqueued, storeFull>>

ClearFailed ==
    /\ ~FilterThrows(queue)
    /\ Becomes(clearFailed(State))
    /\ UNCHANGED <<online, listening, enqueued, storeFull>>

\* A direct call of the public processQueue().
ProcessQueue ==
    /\ Becomes(processQueue(State, online))
    /\ UNCHANGED <<online, listening, enqueued, storeFull>>

\* An online event whose handler runs although destroy() was called.
GoOnlineAfterDestroy ==
    /\ ~online
    /\ online' = TRUE
    /\ Becomes(processQueue(State, TRUE))
    /\ UNCHANGED <<listening, enqueued, storeFull>>

\* The browser goes online: navigator.onLine turns true and the online event
\* runs onlineHandler if it is still installed.
GoOnline ==
    /\ ~online
    /\ online' = TRUE
    /\ IF listening THEN Becomes(processQueue(State, TRUE))
       ELSE /\ UNCHANGED <<timer, queue, storage, isProcessing, pc, pendingOperations,
                           operation, index, dispatched, passResult>>
            /\ writes' = 0
            /\ exception' = "none"
    /\ UNCHANGED <<listening, enqueued, storeFull>>

\* The browser goes offline: offlineHandler is empty.
GoOffline ==
    /\ online
    /\ online' = FALSE
    /\ writes' = 0
    /\ exception' = "none"
    /\ UNCHANGED <<timer, queue, storage, isProcessing, listening, pc,
                   pendingOperations, operation, index, enqueued, dispatched,
                   passResult, storeFull>>

\* await executeOperation resolves: the fetch answered ok.
DispatchSucceeds ==
    /\ pc = "exec"
    /\ executeOperation(operation).threw = NoError
    /\ Becomes(Loop(saveToStorage(
            [State EXCEPT !.queue = SelectSeq(Visited(@), LAMBDA op : op.id # operation.id)])))
    /\ UNCHANGED <<online, listening, enqueued, storeFull>>

\* The catch block with the ceiling test off by one (<= for <).
CatchOffByOne(s, msg) ==
    LET retryCount == s.operation.retryCount + 1 IN
    IF retryCount <= RetryCeiling
    THEN saveToStorage(
            [s EXCEPT !.queue = ArraySet(@, s.index,
                                  [s.operation EXCEPT !.status = "pending",
                                                      !.retryCount = retryCount,
                                                      !.error = msg]),
                      !.pc = "delay",
                      !.timer = RetryDelay(retryCount)])
    ELSE Loop(saveToStorage(
            [s EXCEPT !.queue = ArraySet(@, s.index,
                                  [s.operation EXCEPT !.status = "failed",
                                                      !.retryCount = retryCount,
                                                      !.error = msg])]))

\* The catch block of processOperation, entered with message `msg`.
Catch(s, msg) ==
    LET retryCount == s.operation.retryCount + 1 IN
    IF retryCount < RetryCeiling
    THEN saveToStorage(
            [s EXCEPT !.queue = ArraySet(@, s.index,
                                  [s.operation EXCEPT !.status = "pending",
                                                      !.retryCount = retryCount,
                                                      !.error = msg]),
                      !.pc = "delay",
                      !.timer = RetryDelay(retryCount)])
    ELSE Loop(saveToStorage(
            [s EXCEPT !.queue = ArraySet(@, s.index,
                                  [s.operation EXCEPT !.status = "failed",
                                                      !.retryCount = retryCount,
                                                      !.error = msg])]))

\* await executeOperation rejects: it threw before the fetch, the fetch
\* failed, or the response was not ok.
DispatchFails(msg) ==
    /\ pc = "exec"
    /\ IF executeOperation(operation).threw = NoError
       THEN msg \in FetchErrors
       ELSE msg = executeOperation(operation).threw
    /\ Becomes(Catch(State, msg))
    /\ UNCHANGED <<online, listening, enqueued, storeFull>>

\* The backoff timer fires: processOperation(this.queue[index]).
DelayElapses ==
    /\ pc = "delay"
    /\ LET r == processOperation([State EXCEPT !.timer = 0],
                                  ArrayGet(queue, index))
       IN  Becomes(CASE r.pc = "return" -> Loop(r)
                     [] r.pc = "throw" -> Settle(r, "rejected")
                     [] OTHER -> r)
    /\ UNCHANGED <<online, listening, enqueued, storeFull>>

\* The page is reloaded: a new SyncQueue is constructed from the store; the
\* old drain and its listeners are gone with the old page.
Reload ==
    /\ queue' = loadFromStorage(storage)
    /\ isProcessing' = FALSE
    /\ listening' = TRUE
    /\ pc' = "idle"
    /\ pendingOperations' = <<>>
    /\ operation' = undefined
    /\ index' = 0
    /\ passResult' = "none"
    /\ writes' = 0
    /\ exception' = "none"
    /\ timer' = 0
    /\ UNCHANGED <<storage, online, enqueued, dispatched, storeFull>>

\* destroy()
Destroy ==
    /\ listening' = FALSE
    /\ writes' = 0
    /\ exception' = "none"
    /\ UNCHANGED <<timer, queue, storage, isProcessing, online, pc, pendingOperations,
                   operation, index, enqueued, dispatched, passResult,
                   storeFull>>

\* The store runs out of quota, or room is made in it.
QuotaChanges ==
    /\ storeFull' = ~storeFull
    /\ writes' = 0
    /\ exception' = "none"
    /\ UNCHANGED <<timer, queue, storage, isProcessing, online, listening, pc,
                   pendingOperations, operation, index, enqueued, dispatched,
                   passResult>>

Step(inputs) ==
    \/ \E in \in inputs : Add(in)
    \/ \E id \in 1..MaxOps : Remove(id)
    \/ Clear
    \/ ClearFailed
    \/ ProcessQueue
    \/ GoOnline
    \/ GoOffline
    \/ DispatchSucceeds
    \/ \E msg \in FetchErrors \cup {"Unknown entity type"} : DispatchFails(msg)
    \/ DelayElapses

\* One page session, started with an empty store.
Next == Step(EntityInputs)

Spec == Init /\ [][Next]_vars

\* The same with the calls that coalesce and supersede on one entity.
NextCoalesce == Step(CoalesceInputs)

SpecCoalesce == Init /\ [][NextCoalesce]_vars

\* Sessions that end in a reload of the page at any moment.
NextReload == Next \/ Reload

SpecReload == Init /\ [][NextReload]_vars

\* Sessions and reloads with a Dispatcher that always succeeds, a device that
\* comes back online and a caller that keeps asking for a drain.
NextDelivery ==
    \/ \E in \in EntityInputs : Add(in)
    \/ ProcessQueue
    \/ GoOnline
    \/ GoOffline
    \/ DispatchSucceeds
    \/ Reload

SpecDelivery ==
    /\ Init /\ [][NextDelivery]_vars
    /\ WF_vars(DispatchSucceeds) /\ WF_vars(ProcessQueue) /\ WF_vars(GoOnline)

\* One session in which every dispatch succeeds.
NextSuccess ==
    \/ \E in \in EntityInputs : Add(in)
    \/ \E id \in 1..MaxOps : Remove(id)
    \/ Clear
    \/ ClearFailed
    \/ ProcessQueue
    \/ GoOnline
    \/ GoOffline
    \/ DispatchSucceeds

SpecSuccess == Init /\ [][NextSuccess]_vars

\* One session in which no call is made while a drain pass is running.
NextQuiet ==
    \/ \E in \in EntityInputs : ~isProcessing /\ Add(in)
    \/ ProcessQueue
    \/ GoOnline
    \/ GoOffline
    \/ DispatchSucceeds
    \/ \E msg \in FetchErrors : DispatchFails(msg)
    \/ DelayElapses

SpecQuiet == Init /\ [][NextQuiet]_vars

\* One session in which destroy() is called as well.
NextDestroy == Next \/ Destroy

SpecDestroy == Init /\ [][NextDestroy]_vars

\* Sessions with a Dispatcher that always succeeds and a fetch that always
\* answers; nobody calls processQueue() directly.
NextAuto ==
    \/ \E in \in AutoInputs : Add(in)
    \/ GoOnline
    \/ GoOffline
    \/ DispatchSucceeds

SpecAuto == Init /\ [][NextAuto]_vars /\ WF_vars(DispatchSucceeds)

\* No operation was enqueued yet for the entity of the add() call `in`.
Fresh(in) ==
    \A k \in 1..Len(enqueued) :
        ~(enqueued[k].entity = in[2] /\ enqueued[k].entityId = in[3])

\* The same, with every add() made while the device is offline and for an
\* entity of its own.
NextReconnect ==
    \/ \E in \in DistinctInputs : ~online /\ Fresh(in) /\ Add(in)
    \/ GoOnline
    \/ GoOffline
    \/ DispatchSucceeds

SpecReconnect == Init /\ [][NextReconnect]_vars /\ WF_vars(DispatchSucceeds)

\* The same, with the device online from the start to the end.
NextOnline ==
    \/ \E in \in AutoInputs : Add(in)
    \/ DispatchSucceeds

InitOnline == Init /\ online = TRUE

SpecOnline == InitOnline /\ [][NextOnline]_vars /\ WF_vars(DispatchSucceeds)

\* One session with a store that can run out of quota and a Dispatcher that
\* always succeeds.
NextQuota == NextSuccess \/ QuotaChanges

SpecQuota == Init /\ [][NextQuota]_vars

\* One session with operations of every type on every entity type, none
\* enqueued while a drain pass is running.
NextDispatch ==
    \/ \E in \in DispatchInputs : ~isProcessing /\ Add(in)
    \/ GoOnline
    \/ GoOffline
    \/ DispatchSucceeds
    \/ \E msg \in FetchErrors \cup {"Unknown entity type"} : DispatchFails(msg)
    \/ DelayElapses

SpecDispatch == Init /\ [][NextDispatch]_vars

\* One drain pass and the calls made before and during it: operations are
\* enqueued offline, one online event starts the pass, and add, remove, clear
\* and clearFailed go on while it runs; every Dispatcher call returns or
\* throws and every backoff timer fires.
NextOnePass ==
    \/ \E in \in EntityInputs :
            ((passResult = "none" /\ ~online) \/ isProcessing) /\ Add(in)
    \/ \E id \in 1..MaxOps : Remove(id)
    \/ Clear
    \/ ClearFailed
    \/ passResult = "none" /\ GoOnline
    \/ DispatchSucceeds
    \/ \E msg \in FetchErrors : DispatchFails(msg)
    \/ DelayElapses

InitOffline == Init /\ online = FALSE

SpecOnePass ==
    /\ InitOffline /\ [][NextOnePass]_vars
    /\ WF_vars(DispatchSucceeds \/ \E msg \in FetchErrors : DispatchFails(msg))
    /\ WF_vars(DelayElapses)

\* Sessions on one entity with a Dispatcher that always succeeds and a
\* fetch that always answers, add() called only while no pass is running.
NextCreate ==
    \/ \E in \in CoalesceInputs : ~isProcessing /\ Add(in)
    \/ GoOnline
    \/ GoOffline
    \/ DispatchSucceeds

SpecCreate == Init /\ [][NextCreate]_vars /\ WF_vars(DispatchSucceeds)

\* ================================================================== claims
\* The positions of the list that hold a record.
Records(q) == {i \in 1..Len(q) : IsOp(q[i])}

SameEntity(a, b) == a.entity = b.entity /\ a.entityId = b.entityId

\* The records of q for the entity of the add() call `in`.
RecordsFor(q, in) ==
    SelectSeq(Visited(q), LAMBDA op : op.entity = in[2] /\ op.entityId = in[3])

\* A pending record of one of `types` for the entity of `in` is in q.
PendingFor(q, in, types) ==
    \E i \in Records(q) :
        /\ q[i].entity = in[2] /\ q[i].entityId = in[3]
        /\ q[i].status = "pending" /\ q[i].type \in types

\* C1: in every reachable state the queue holds at most one record with
\* status pending or syncing for each (entity, entityId) pair.
C1_OneActiveRecordPerEntity ==
    \A i, j \in Records(queue) :
        (/\ i # j
         /\ SameEntity(queue[i], queue[j])
         /\ queue[i].status \in {"pending", "syncing"})
        => queue[j].status \notin {"pending", "syncing"}

\* C2 as stated: an add() of an update for E while a pending update for E is
\* queued leaves exactly one record for E in getPending(), with the payload
\* of the later call.
C2_ExactlyOnePendingAfterAdd ==
    [][\A in \in CoalesceInputs :
         (in[1] = "update" /\ PendingFor(queue, in, {"update"}) /\ Add(in))
         => LET p == RecordsFor(getPending(queue'), in)
            IN  Len(p) = 1 /\ p[1].payload = in[5]]_vars

\* C2 amended: after such an add() getPending() holds no record for E but
\* the one just built, which carries the later payload; it holds that one
\* unless this add() itself started a drain pass (online, none running) that
\* put it in syncing at once.
C2_CoalescedToNewRecord ==
    [][\A in \in CoalesceInputs :
         (in[1] = "update" /\ PendingFor(queue, in, {"update"}) /\ Add(in))
         => LET p == RecordsFor(getPending(queue'), in)
                new == NewOperation(Len(enqueued) + 1, in)
            IN  /\ \A k \in 1..Len(p) : p[k] = new
                /\ Len(p) <= 1
                /\ (~online \/ isProcessing) => Len(p) = 1
                /\ Len(p) = 0 =>
                     /\ online /\ ~isProcessing
                     /\ \E i \in Records(queue') :
                            queue'[i] = [new EXCEPT !.status = "syncing"]]_vars

\* C2 witness: the second of two updates of one entity with different
\* payloads is the only pending record; the first was never dispatched.
C2_Witness ==
    \E k \in 2..Len(enqueued) :
        /\ enqueued[k].type = "update" /\ enqueued[k - 1].type = "update"
        /\ SameEntity(enqueued[k], enqueued[k - 1])
        /\ enqueued[k].payload # enqueued[k - 1].payload
        /\ dispatched[k - 1] = 0
        /\ getPending(queue) = <<enqueued[k]>>

\* C3 as stated: an add() of a delete for E while a pending create or update
\* for E is queued leaves exactly one record for E, of type delete.
C3_ExactlyOneDeleteAfterAdd ==
    [][\A in \in CoalesceInputs :
         (/\ in[1] = "delete"
          /\ PendingFor(queue, in, {"create", "update"})
          /\ Add(in))
         => LET r == RecordsFor(queue', in)
            IN  Len(r) = 1 /\ r[1].type = "delete"]_vars

\* C3 amended: after such an add() exactly one record for E is pending or
\* was put in flight by the call, and it is the new delete; the records for
\* E that were syncing or failed before the call stay as they were.
C3_DeleteSupersedesPending ==
    [][\A in \in CoalesceInputs :
         (/\ in[1] = "delete"
          /\ PendingFor(queue, in, {"create", "update"})
          /\ Add(in))
         => LET r == RecordsFor(queue', in)
                new == NewOperation(Len(enqueued) + 1, in)
                IsNew(op) == op = new \/ op = [new EXCEPT !.status = "syncing"]
            IN  /\ Len(SelectSeq(r, IsNew)) = 1
                /\ \A k \in 1..Len(r) : r[k].status = "pending" => r[k] = new
                /\ SelectSeq(r, LAMBDA op : ~IsNew(op))
                     = SelectSeq(RecordsFor(queue, in),
                                 LAMBDA op : op.status # "pending")]_vars

\* C3 witness: a delete enqueued right after a create or update of the same
\* entity that was never dispatched is the only record of the queue.
C3_Witness ==
    \E k \in 2..Len(enqueued) :
        /\ enqueued[k].type = "delete"
        /\ enqueued[k - 1].type \in {"create", "update"}
        /\ SameEntity(enqueued[k], enqueued[k - 1])
        /\ dispatched[k - 1] = 0
        /\ queue = <<enqueued[k]>>

\* C4: the list a reload builds from the store equals the list in memory.
C4_ReloadEqualsMemory == loadFromStorage(storage) = queue

\* The record with this id is in the list.
InQueue(id) == \E i \in Records(queue) : queue[i].id = id

\* The queue has just been rebuilt from the store and holds record `id` in a
\* state other than failed.
Restored(id) ==
    /\ pc = "idle" /\ passResult = "none"
    /\ queue = loadFromStorage(storage)
    /\ \E i \in Records(queue) : queue[i].id = id /\ queue[i].status # "failed"

\* C5: every record a reload finds in the store in a state other than
\* failed, pending or syncing, eventually leaves the queue when drains run
\* online and every dispatch succeeds.
C5_DeliveredAfterReload ==
    \A id \in 1..MaxOps : [](Restored(id) => <>(~InQueue(id)))

\* C6: with no call made during a pass, the Dispatcher has been invoked for
\* a record once per failure counted in retryCount (and once more while it
\* is in flight), retryCount stays below the ceiling while the record is
\* retried, and a failed record has had exactly RetryCeiling invocations.
C6_RetryCeiling ==
    \A i \in Records(queue) :
        LET op == queue[i] IN
        /\ op.status = "pending" =>
                dispatched[op.id] = op.retryCount /\ op.retryCount < RetryCeiling
        /\ op.status = "syncing" =>
                dispatched[op.id] = op.retryCount + 1 /\ op.retryCount < RetryCeiling
        /\ op.status = "failed" =>
                dispatched[op.id] = RetryCeiling /\ op.retryCount = RetryCeiling

\* C6 witness: a record has failed after RetryCeiling invocations.
C6_Witness ==
    \E i \in Records(queue) :
        /\ queue[i].status = "failed"
        /\ queue[i].retryCount = RetryCeiling
        /\ dispatched[queue[i].id] = RetryCeiling

\* The value `op` is an element of the list q.
Holds(q, op) == \E i \in Records(q) : q[i] = op

\* C7: a failed record is never dispatched again and never changes; it
\* leaves the queue only by clearFailed(), clear() or remove(id).
C7_FailedIsTerminal ==
    [][\A i \in Records(queue) :
         queue[i].status = "failed" =>
            /\ dispatched'[queue[i].id] = dispatched[queue[i].id]
            /\ \/ Holds(queue', queue[i])
               \/ Clear \/ ClearFailed \/ Remove(queue[i].id)]_vars

\* C8: a processQueue() made while a pass is running, directly, by an online
\* event or by add(), dispatches nothing and leaves the running pass as it
\* is; with every dispatch succeeding no record is dispatched twice.
C8_ReentrantDrainIsNoOp ==
    [][/\ (isProcessing /\ (ProcessQueue \/ GoOnline)) =>
            UNCHANGED <<queue, storage, isProcessing, pc, pendingOperations,
                        operation, index, dispatched>>
       /\ (isProcessing /\ \E in \in EntityInputs : Add(in)) =>
            UNCHANGED <<isProcessing, pc, pendingOperations, operation,
                        index, dispatched>>
       /\ \A id \in 1..MaxOps : dispatched'[id] <= 1]_vars

\* C8 witness: online, one record in flight and another, enqueued during
\* the pass, still pending and never dispatched.
C8_Witness ==
    /\ online /\ isProcessing /\ pc = "exec"
    /\ \E i, j \in Records(queue) :
        /\ queue[i].status = "syncing" /\ dispatched[queue[i].id] = 1
        /\ queue[j].status = "pending" /\ dispatched[queue[j].id] = 0
        /\ queue[j].id > queue[i].id

\* C9: a pass starts the dispatch of another record only when the record it
\* was dispatching has left the queue or is failed.
C9_SerialHeadOfLine ==
    [][(pc # "idle" /\ dispatched' # dispatched /\ operation'.id # operation.id)
         => \A i \in Records(queue') :
               queue'[i].id = operation.id => queue'[i].status = "failed"]_vars

\* C10: the Dispatcher is never invoked for an operation of an entity after
\* it has been invoked for an operation of that entity enqueued later.
C10_SameEntityOrder ==
    [][\A b \in 1..Len(enqueued) :
         dispatched'[b] # dispatched[b] =>
            \A c \in (b + 1)..Len(enqueued) :
                SameEntity(enqueued[b], enqueued[c]) => dispatched[c] = 0]_vars

\* Record k is an update that replaced the update k - 1 of the same entity,
\* which was never dispatched, and no add() was made since.
Coalesced(k) ==
    /\ Len(enqueued) = k
    /\ enqueued[k].type = "update" /\ enqueued[k - 1].type = "update"
    /\ SameEntity(enqueued[k], enqueued[k - 1])
    /\ enqueued[k].payload # enqueued[k - 1].payload
    /\ ~InQueue(k - 1)

\* Record k was dispatched once, with its own payload as the body, and no
\* record of its entity is pending.
DeliveredOnce(k) ==
    /\ dispatched[k] = 1
    /\ executeOperation(enqueued[k]).body = JSONstringify(enqueued[k].payload)
    /\ \A i \in Records(queue) :
          SameEntity(queue[i], enqueued[k]) => queue[i].status # "pending"

\* C11: an update replaced by coalescing before it was dispatched is never
\* dispatched, and while the device stays online and every dispatch succeeds
\* the update that replaced it is dispatched exactly once, with its payload,
\* after which no record of the entity is pending.
C11_CoalescedDeliveredOnce ==
    \A k \in 2..MaxOps :
        /\ []((Len(enqueued) >= k /\ dispatched[k - 1] = 0 /\ ~InQueue(k - 1))
                => [](dispatched[k - 1] = 0))
        /\ [](dispatched[k] <= 1)
        /\ []((Coalesced(k) /\ dispatched[k - 1] = 0 /\ online)
                => <>(~online \/ Len(enqueued) > k \/ DeliveredOnce(k)))

\* Record id is in the queue with status pending.
IsPending(id) ==
    \E i \in Records(queue) : queue[i].id = id /\ queue[i].status = "pending"

\* C12: every operation enqueued while offline is in getPending() when add()
\* returns, and once the device is online each of them is dispatched and
\* getPending() becomes empty, unless the device goes offline again.
C12_OfflineThenOnline ==
    /\ [][\A in \in DistinctInputs :
            (~online /\ Fresh(in) /\ Add(in)) =>
                Holds(getPending(queue'), NewOperation(Len(enqueued) + 1, in))]_vars
    /\ \A id \in 1..MaxOps :
          []((online /\ InQueue(id)) => <>(~online \/ dispatched[id] > 0))
    /\ [](online => <>(~online \/ getPending(queue) = <<>>))

\* C13: with the device online all along, the operation enqueued last is
\* handed to the Dispatcher without another add() being needed.
C13_DrainOnEnqueue ==
    \A id \in 1..MaxOps :
        []((Len(enqueued) = id /\ InQueue(id))
            => <>(dispatched[id] > 0 \/ Len(enqueued) > id))

\* Record id was never dispatched and is not in the snapshot of a running
\* pass: no drain has started since it was enqueued.
Waiting(id) ==
    /\ IsPending(id)
    /\ dispatched[id] = 0
    /\ \A k \in 1..Len(pendingOperations) : pendingOperations[k].id # id
    /\ ~(IsOp(operation) /\ operation.id = id)

\* This step starts a drain pass while the device is online.
DrainStarts ==
    /\ ~isProcessing /\ online'
    /\ (ProcessQueue \/ GoOnline \/ \E in \in EntityInputs : Add(in))

\* C14: while offline add() appends the new record, pending with retryCount
\* 0, and writes the list to the store without a Dispatcher call, and
\* processQueue() changes nothing; while offline a record waiting for a drain
\* stays in the queue as it was built until a drain starts online, unless it
\* is removed, cleared or coalesced away.
C14_OfflineIsPassive ==
    [][/\ \A in \in EntityInputs :
            (~online /\ Add(in)) =>
                LET new == NewOperation(Len(enqueued) + 1, in) IN
                /\ queue' # <<>> /\ queue'[Len(queue')] = new
                /\ new.status = "pending" /\ new.retryCount = 0
                /\ storage' = <<queue'>>
                /\ dispatched' = dispatched
       /\ (~online /\ ProcessQueue) =>
            UNCHANGED <<queue, storage, isProcessing, pc, pendingOperations,
                        operation, index, dispatched, passResult>>
       /\ \A id \in 1..Len(enqueued) :
            (~online /\ Waiting(id)) =>
                \/ Holds(queue', enqueued[id]) /\ dispatched'[id] = 0
                \/ Remove(id) \/ Clear
                \/ \E in \in EntityInputs :
                        Add(in) /\ in[2] = enqueued[id].entity
                                /\ in[3] = enqueued[id].entityId
                \/ DrainStarts]_vars

\* This step is a call of add, remove, clear or clearFailed.
MutatingCall ==
    \/ \E in \in EntityInputs : Add(in)
    \/ \E id \in 1..MaxOps : Remove(id)
    \/ Clear
    \/ ClearFailed

\* C15 as stated: every call of add, remove, clear or clearFailed writes the
\* store exactly once, and the list written is the in-memory list the call
\* leaves.
C15_ExactlyOneWrite ==
    [][MutatingCall => writes' = 1 /\ storage' = <<Stringify(queue')>>]_vars

\* C15 amended: remove, clear and clearFailed write the store exactly once;
\* add writes it once, and a second time when it starts a drain pass (online,
\* none running), which marks its first record syncing; every write is of
\* the whole list after the in-memory change, so the store holds the
\* in-memory list when the call returns.
C15_WritesPerCall ==
    [][/\ MutatingCall => storage' = <<Stringify(queue')>>
       /\ ((\E id \in 1..MaxOps : Remove(id)) \/ Clear \/ ClearFailed)
            => writes' = 1
       /\ (\E in \in EntityInputs : Add(in)) =>
            writes' = (IF online /\ ~isProcessing THEN 2 ELSE 1)]_vars

\* C15 witness: an add() made online with no pass running has written the
\* store twice and left its record syncing in memory and in the store.
C15_Witness ==
    /\ Len(enqueued) = 1 /\ writes = 2
    /\ queue = <<[enqueued[1] EXCEPT !.status = "syncing"]>>
    /\ storage = <<queue>>

\* This step is a call of add, remove, clear or clearFailed made while the
\* store's write throws.
FailingWrite == storeFull /\ MutatingCall

C17_FailureBecomesTransition ==
    [][/\ passResult' # "rejected"
       /\ \A msg \in FetchErrors :
            DispatchFails(msg) =>
                /\ \E i \in Records(queue') :
                        /\ queue'[i].id = operation.id
                        /\ queue'[i].retryCount = operation.retryCount + 1
                        /\ queue'[i].error = msg
                        /\ queue'[i].status \in {"pending", "failed"}
                /\ \A j \in Records(queue) :
                        \E i \in Records(queue') : queue'[i].id = queue[j].id]_vars

\* C18: while a Dispatcher invocation is awaited its one outbound call is
\* POST for create, PATCH for update and DELETE for delete, with the
\* serialized payload as body for create and update and no body for delete.
C18_OneCallPerRecord ==
    (pc = "exec" /\ operation.entity \in SyncEntity
                 /\ operation.type \in SyncOperationType) =>
        LET request == executeOperation(operation) IN
        /\ request.threw = NoError
        /\ request.method = (CASE operation.type = "create" -> "POST"
                               [] operation.type = "update" -> "PATCH"
                               [] operation.type = "delete" -> "DELETE")
        /\ request.body = (IF operation.type = "delete" THEN undefined
                           ELSE JSONstringify(operation.payload))

\* C19: an online event delivered while the listeners are installed changes
\* the queue as one processQueue() call does; an offline event changes
\* nothing but navigator.onLine; destroy() removes the listeners for good,
\* and without them an online event changes nothing either.
C19_ConnectivityMonitor ==
    [][/\ (listening /\ ~online /\ online') => Becomes(processQueue(State, TRUE))
       /\ (online /\ ~online') =>
            UNCHANGED <<queue, storage, isProcessing, pc, pendingOperations,
                        operation, index, dispatched, passResult>>
       /\ (~listening /\ ~online /\ online') =>
            UNCHANGED <<queue, storage, isProcessing, pc, pendingOperations,
                        operation, index, dispatched, passResult>>
       /\ Destroy => ~listening'
       /\ ~listening => ~listening']_vars

\* C19 witness: a destroyed queue is online and idle with records that were
\* enqueued offline and never dispatched.
C19_Witness ==
    /\ ~listening /\ online /\ ~isProcessing /\ passResult = "none"
    /\ getPending(queue) # <<>>
    /\ \A id \in 1..MaxOps : dispatched[id] = 0

C21_Backoff ==
    [][/\ \A msg \in FetchErrors :
            (DispatchFails(msg) /\ operation.retryCount + 1 < RetryCeiling) =>
                LET k == operation.retryCount + 1 IN
                /\ pc' = "delay"
                /\ timer' = SYNC_RETRY_DELAYS_MS[k + 1]
                /\ k > 1 => timer' > SYNC_RETRY_DELAYS_MS[k]
                /\ dispatched' = dispatched
                /\ \E i \in Records(queue') :
                        /\ queue'[i].id = operation.id
                        /\ queue'[i].status = "pending"
                        /\ queue'[i].retryCount = k
       /\ (pc = "delay" /\ dispatched' # dispatched) => DelayElapses
       /\ (DelayElapses /\ InQueue(operation.id)) =>
            pc' = "exec" /\ operation'.id = operation.id]_vars

\* The records an add() for the entity of `in` has to keep: those of other
\* entities and the failed and syncing ones of the entity itself.
KeptBy(q, in) ==
    SelectSeq(Visited(q),
              LAMBDA op : \/ ~(op.entity = in[2] /\ op.entityId = in[3])
                          \/ op.status \in {"failed", "syncing"})

\* The list q with its first pending record marked syncing.
FirstPendingSyncing(q) ==
    LET p == {i \in 1..Len(q) : q[i].status = "pending"}
        first == CHOOSE i \in p : \A j \in p : i <= j
    IN  IF p = {} THEN q ELSE [q EXCEPT ![first].status = "syncing"]

\* C22: clearFailed() leaves exactly the pending and syncing records,
\* unchanged and in their order; add() for E leaves the records of other
\* entities and the failed and syncing records of E unchanged and in their
\* order, followed by the new record (the syncing mark that the drain pass
\* started by the add() puts on the first pending record is let pass).
C22_FrameOfClearFailedAndAdd ==
    [][/\ ClearFailed =>
            queue' = SelectSeq(Visited(queue),
                               LAMBDA op : op.status \in {"pending", "syncing"})
       /\ \A in \in EntityInputs :
            Add(in) =>
                LET pushed == Append(KeptBy(queue, in),
                                     NewOperation(Len(enqueued) + 1, in))
                IN  queue' = IF online /\ ~isProcessing
                             THEN FirstPendingSyncing(pushed)
                             ELSE pushed]_vars

\* C23: a record leaves the queue only by its own successful dispatch, by an
\* add() for its entity, or by remove(id), clear() or clearFailed().
C23_NoRecordLost ==
    [][\A id \in 1..Len(enqueued) :
         (InQueue(id) /\ ~(\E i \in Records(queue') : queue'[i].id = id)) =>
            \/ DispatchSucceeds /\ operation.id = id
            \/ Remove(id) \/ Clear \/ ClearFailed
            \/ \E in \in EntityInputs :
                    Add(in) /\ in[2] = enqueued[id].entity
                            /\ in[3] = enqueued[id].entityId]_vars

\* C24: an empty queue stays empty until the next add(), and a record that
\* has left the queue never comes back to the queue or to the store.
C24_RemovalIsFinal ==
    [][/\ queue = <<>> => (queue' = <<>> \/ \E in \in EntityInputs : Add(in))
       /\ \A id \in 1..Len(enqueued) :
            ~InQueue(id) =>
                /\ ~(\E i \in Records(queue') : queue'[i].id = id)
                /\ ~(\E i \in Records(loadFromStorage(storage')) :
                        loadFromStorage(storage')[i].id = id)]_vars

\* C25: no two entries of the list have the same id.
C25_UniqueIds ==
    \A i, j \in Records(queue) : queue[i].id = queue[j].id => i = j

\* C26: the Dispatcher is invoked at most RetryCeiling times for one id.
C26_BoundedAttempts ==
    \A id \in 1..MaxOps : dispatched[id] <= RetryCeiling

\* C27: while no drain pass is active no record has status syncing.
C27_SyncingIsTransient ==
    ~isProcessing => \A i \in Records(queue) : queue[i].status # "syncing"

\* C28: a drain pass ends, isProcessing is false once its promise has
\* settled, resolved or rejected, and the pass invokes the Dispatcher at
\* most RetryCeiling times for one record.
C28_PassTerminates ==
    /\ [](isProcessing => <>(~isProcessing))
    /\ [](passResult \in {"resolved", "rejected"} => ~isProcessing)
    /\ [](\A id \in 1..MaxOps : dispatched[id] <= RetryCeiling)

\* Termination and the finally block alone.
PassEndsAndReleases ==
    /\ [](isProcessing => <>(~isProcessing))
    /\ [](passResult \in {"resolved", "rejected"} => ~isProcessing)

\* C29: every record has 0 <= retryCount <= RetryCeiling, with retryCount =
\* RetryCeiling when it is failed and below it when it is pending or
\* syncing, and the retryCount of a record never decreases.
C29_RetryCountConsistent ==
    [][/\ \A i \in Records(queue') :
            /\ queue'[i].retryCount \in 0..RetryCeiling
            /\ queue'[i].status = "failed" => queue'[i].retryCount = RetryCeiling
            /\ queue'[i].status \in {"pending", "syncing"}
                    => queue'[i].retryCount < RetryCeiling
       /\ \A j \in Records(queue) :
            (\E i \in Records(queue') : queue'[i].id = queue[j].id) =>
                \E i \in Records(queue') :
                    /\ queue'[i].id = queue[j].id
                    /\ queue'[i].retryCount >= queue[j].retryCount]_vars

\* A create call for the entity of record e has been sent.
CreateSent(e) ==
    \E c \in 1..Len(enqueued) :
        /\ enqueued[c].type = "create" /\ SameEntity(enqueued[c], e)
        /\ dispatched[c] > 0
        /\ executeOperation(enqueued[c]).method = "POST"

\* C30: when an update for E was enqueued right after a create for E that
\* had not been dispatched, a create call for E is sent while the device
\* stays online and every dispatch succeeds.
C30_CreateSurvivesCoalescing ==
    \A k \in 2..MaxOps :
        []((/\ Len(enqueued) >= k
            /\ enqueued[k - 1].type = "create" /\ enqueued[k].type = "update"
            /\ SameEntity(enqueued[k - 1], enqueued[k])
            /\ dispatched[k - 1] = 0 /\ ~InQueue(k - 1)
            /\ online)
           => <>(~online \/ (Len(enqueued) >= k /\ CreateSent(enqueued[k]))))

====
